---- MODULE Spec2Model ----
(***************************************************************************)
(* CrowdFuel backend (src/backend/server.js): an Express application that  *)
(* brokers Stripe Connect operations.  Every request occupies one slot of  *)
(* Reqs.  A handler runs from the arrival of its request to its first      *)
(* `await` in one step; each settlement of an awaited Stripe promise is a  *)
(* further step, so handlers of different requests interleave exactly at   *)
(* their external calls, as on the Node event loop.                        *)
(***************************************************************************)
EXTENDS Integers, Sequences, FiniteSets, TLC

VARIABLES stripe, webhookSecret, pc, req, calls, resp, log

vars == <<stripe, webhookSecret, pc, req, calls, resp, log>>

(* ------------------------------ bounds -------------------------------- *)

\* request slots: how many requests the process sees, concurrently or not
MaxReqs == 2
\* amounts (minor units) a payment-intent request may carry: the multiples
\* of AmountStep up to MaxSteps of them, so that 0 and an exact half
\* (10 * 0.05 = 0.5) are among them
AmountStep == 10
MaxSteps == 1

Reqs == 1..MaxReqs
Amounts == {k * AmountStep : k \in 0..MaxSteps}

(* --------------------------- input domains ---------------------------- *)

BandIds == {"b1"}
Emails == {"e@x.com"}
Countries == {"GB"}
\* ids stripe.accounts.create may return
AccountIds == {"acct_1", "acct_2"}
\* ids of existing accounts a caller may name
KnownIds == {"acct_1"}
Urls == {"https://example/link"}
ErrMsgs == {"stripe_error"}
Timestamps == {"2026-01-01T00:00:00.000Z", "2026-01-01T00:00:01.000Z"}
ContentTypes == {"application/json", "text/plain"}
Signatures == {"absent", "forged", "valid"}
HandledKinds == {"payment_intent.succeeded", "payment_intent.payment_failed",
                 "account.updated", "transfer.created", "payout.paid"}
EventKinds == HandledKinds \cup {"customer.created"}

(* ---------------------------- JSON objects ---------------------------- *)

\* the object {} : no field present
EmptyObj == [k \in {} |-> ""]

\* the objects that carry field k with a value of Vals, or lack it
Field(k, Vals) == {EmptyObj} \cup {k :> v : v \in Vals}

Has(b, k) == k \in DOMAIN b

\* JavaScript truthiness of b[k]: undefined, "" and 0 are falsy
TruthyStr(b, k) == Has(b, k) /\ b[k] # ""
TruthyNum(b, k) == Has(b, k) /\ b[k] # 0

\* destructuring with a default: `const { k = d } = b`
GetOr(b, k, d) == IF Has(b, k) THEN b[k] ELSE d

ConnectBodies ==
    {a @@ b @@ c : a \in Field("bandId", BandIds),
                   b \in Field("email", Emails),
                   c \in Field("country", Countries)}

AccountBodies == Field("accountId", KnownIds)

\* currency and description are optional and only passed through: the
\* requests of the model leave them out
IntentBodies ==
    {a @@ b : a \in Field("amount", Amounts),
              b \in Field("bandStripeAccountId", KnownIds)}

\* a webhook event as sent: its kind, and whether it has data.object (every
\* event of the platform has; one event without stands for the others)
EventBodies ==
    {[type |-> k, hasObject |-> TRUE] : k \in EventKinds}
        \cup {[type |-> "payout.paid", hasObject |-> FALSE]}

\* what a request of content type ctype can carry: a JSON document of Docs,
\* or, under any other content type, bytes no parser of this server decodes
Payloads(ctype, Docs) == IF ctype = "application/json" THEN Docs ELSE {EmptyObj}

(* ----------------------------- middleware ----------------------------- *)

\* bodyParser.json(): decodes a JSON body and marks the request as parsed
\* (req._body); any other request passes with req.body = {} (body-parser 1.x,
\* the parser Express 4 applications require by this name)
JsonParser(ctype, payload) ==
    IF ctype = "application/json"
    THEN [form |-> "object", value |-> payload, parsed |-> TRUE]
    ELSE [form |-> "object", value |-> EmptyObj, parsed |-> FALSE]

\* bodyParser.raw({type: 'application/json'}) mounted on /webhook: keeps the
\* bytes of a JSON body, unless an earlier parser already consumed the body
RawParser(route, ctype, payload, prev) ==
    IF route = "/webhook" /\ ~prev.parsed /\ ctype = "application/json"
    THEN [form |-> "raw", value |-> payload, parsed |-> TRUE]
    ELSE prev

\* the chain in registration order: json first, then raw on /webhook
Middleware(route, ctype, payload) ==
    RawParser(route, ctype, payload, JsonParser(ctype, payload))

\* the body-less GET / request
NoBody == [form |-> "object", value |-> EmptyObj, parsed |-> FALSE]

(* ------------------------------ requests ------------------------------ *)

NoReq == [route |-> "none", ctype |-> "", payload |-> EmptyObj,
          sig |-> "absent", at |-> "", body |-> NoBody]

NewReq(route, ctype, payload, sig, at) ==
    [route |-> route, ctype |-> ctype, payload |-> payload, sig |-> sig,
     at |-> at,
     body |-> IF route = "/" THEN NoBody ELSE Middleware(route, ctype, payload)]

NoResp == [status |-> 0, body |-> EmptyObj]

\* res.json(body) / res.status(s).json(body)
Json(status, body) == [status |-> status, body |-> body]

\* message of the TypeError thrown by `stripe.<member>` when stripe is undefined
UndefinedMsg(member) ==
    CASE member = "accounts" ->
           "Cannot read properties of undefined (reading 'accounts')"
      [] member = "paymentIntents" ->
           "Cannot read properties of undefined (reading 'paymentIntents')"
      [] member = "webhooks" ->
           "Cannot read properties of undefined (reading 'webhooks')"

(* --------------------------- external calls --------------------------- *)

NoRet == EmptyObj

Pending(op, args) ==
    [op |-> op, args |-> args, state |-> "pending", ret |-> NoRet, err |-> ""]

\* the last call of the request, settled
Settled(cs, state, ret, err) ==
    [cs EXCEPT ![Len(cs)] = [@ EXCEPT !.state = state, !.ret = ret, !.err = err]]

(* ------------------------------- Init --------------------------------- *)

\* server.js:10-21: stripe is assigned only if STRIPE_SECRET_KEY is set and
\* the require succeeds; STRIPE_WEBHOOK_SECRET is read from the environment
Init ==
    /\ stripe \in {"client", "undefined"}
    /\ webhookSecret \in {"whsec", "undefined"}
    /\ pc = [r \in Reqs |-> "idle"]
    /\ req = [r \in Reqs |-> NoReq]
    /\ calls = [r \in Reqs |-> <<>>]
    /\ resp = [r \in Reqs |-> NoResp]
    /\ log = [r \in Reqs |-> <<>>]

Config == <<stripe, webhookSecret>>

\* the handler of request r answers and returns
Respond(r, rq, cs, response, lines) ==
    /\ pc' = [pc EXCEPT ![r] = "done"]
    /\ req' = [req EXCEPT ![r] = rq]
    /\ calls' = [calls EXCEPT ![r] = cs]
    /\ resp' = [resp EXCEPT ![r] = response]
    /\ log' = [log EXCEPT ![r] = log[r] \o lines]
    /\ UNCHANGED Config

\* the handler of request r suspends at `await` with label at
Suspend(r, rq, cs, at, lines) ==
    /\ pc' = [pc EXCEPT ![r] = at]
    /\ req' = [req EXCEPT ![r] = rq]
    /\ calls' = [calls EXCEPT ![r] = cs]
    /\ log' = [log EXCEPT ![r] = log[r] \o lines]
    /\ UNCHANGED <<resp, Config>>

\* mutant: the catch block answers without setting the status
ErrorResponseNoStatus(message) == Json(200, [error |-> message])

\* mutant: the catch block reports a process-wide count of answered requests
ErrorResponseCounted(message) ==
    Json(500, [error |-> message,
               seen |-> Cardinality({q \in Reqs : pc[q] = "done"})])

\* the catch block of a business handler: log, then 500 {error: message}
ErrorResponse(message) == Json(500, [error |-> message])

(* ------------------------------ GET / --------------------------------- *)

HealthResponse(t) ==
    Json(200, [status |-> "CrowdFuel Backend Running", timestamp |-> t])

Health(r) ==
    /\ pc[r] = "idle"
    /\ \E t \in Timestamps :
         Respond(r, NewReq("/", "", EmptyObj, "absent", t), <<>>,
                 HealthResponse(t), <<>>)

(* -------------------- POST /create-connect-account -------------------- *)

\* mutant: && for ||
ConnectInvalidAnd(b) == ~TruthyStr(b, "bandId") /\ ~TruthyStr(b, "email")

\* `if (!bandId || !email)`
ConnectInvalid(b) == ~TruthyStr(b, "bandId") \/ ~TruthyStr(b, "email")

\* `country = 'US'` in the destructuring
CountryOf(b) == GetOr(b, "country", "US")

AccountArgs(b) ==
    [type |-> "express", country |-> CountryOf(b), email |-> b["email"],
     capabilities |-> {"card_payments", "transfers"},
     business_type |-> "individual"]

\* mutant: the link is requested for the band id instead of the account id
LinkArgsForBand(id, bandId) ==
    [account |-> bandId,
     refresh_url |-> "https://crowdfuel-86c2b.web.app/connect/refresh.html",
     return_url |-> [page |-> "https://crowdfuel-86c2b.web.app/connect/return.html",
                     accountId |-> bandId, bandId |-> bandId],
     type |-> "account_onboarding"]

LinkArgs(id, bandId) ==
    [account |-> id,
     refresh_url |-> "https://crowdfuel-86c2b.web.app/connect/refresh.html",
     return_url |-> [page |-> "https://crowdfuel-86c2b.web.app/connect/return.html",
                     accountId |-> id, bandId |-> bandId],
     type |-> "account_onboarding"]

ConnectResponse(id, url) == Json(200, [accountId |-> id, onboardingUrl |-> url])

CreateConnectAccount(r) ==
    /\ pc[r] = "idle"
    /\ \E ctype \in ContentTypes :
       \E payload \in Payloads(ctype, ConnectBodies) :
         LET rq == NewReq("/create-connect-account", ctype, payload, "absent", "")
             b == rq.body.value
         IN IF ConnectInvalid(b)
            THEN Respond(r, rq, <<>>,
                         Json(400, [error |-> "bandId and email are required"]),
                         <<>>)
            ELSE IF stripe = "undefined"
            THEN Respond(r, rq, <<>>, ErrorResponse(UndefinedMsg("accounts")),
                         <<"Error creating Connect account:">>)
            ELSE Suspend(r, rq, <<Pending("accounts.create", AccountArgs(b))>>,
                         "awaitAccount", <<>>)

\* `await stripe.accounts.create(...)` settles: on success the handler logs
\* and issues stripe.accountLinks.create for the returned account
AccountsCreateSettles(r) ==
    /\ pc[r] = "awaitAccount"
    /\ \/ \E id \in AccountIds :
            Suspend(r, req[r],
                    Append(Settled(calls[r], "ok", [id |-> id], ""),
                           Pending("accountLinks.create",
                                   LinkArgs(id, req[r].body.value["bandId"]))),
                    "awaitLink", <<"Created Stripe account">>)
       \/ \E m \in ErrMsgs :
            Respond(r, req[r], Settled(calls[r], "error", NoRet, m),
                    ErrorResponse(m), <<"Error creating Connect account:">>)

\* `await stripe.accountLinks.create(...)` settles
AccountLinksCreateSettles(r) ==
    /\ pc[r] = "awaitLink"
    /\ \/ \E u \in Urls :
            Respond(r, req[r], Settled(calls[r], "ok", [url |-> u], ""),
                    ConnectResponse(calls[r][1].ret["id"], u), <<>>)
       \/ \E m \in ErrMsgs :
            Respond(r, req[r], Settled(calls[r], "error", NoRet, m),
                    ErrorResponse(m), <<"Error creating Connect account:">>)

(* -------------------- POST /connect-account-status -------------------- *)

\* `if (!accountId)`
AccountIdInvalid(b) == ~TruthyStr(b, "accountId")

\* accounts stripe.accounts.retrieve may return: no flag set, or all but one
Flag(c, p, d) ==
    [charges_enabled |-> c, payouts_enabled |-> p, details_submitted |-> d]

AccountFlags ==
    {Flag(FALSE, FALSE, FALSE), Flag(FALSE, TRUE, TRUE),
     Flag(TRUE, FALSE, TRUE), Flag(TRUE, TRUE, FALSE)}

\* mutant: an account that cannot charge yet is reported as a failure
StatusResponseStrict(account) ==
    IF account["charges_enabled"]
    THEN Json(200, [chargesEnabled |-> account["charges_enabled"],
                    payoutsEnabled |-> account["payouts_enabled"],
                    detailsSubmitted |-> account["details_submitted"]])
    ELSE ErrorResponse("charges are not enabled")

StatusResponse(account) ==
    Json(200, [chargesEnabled |-> account["charges_enabled"],
               payoutsEnabled |-> account["payouts_enabled"],
               detailsSubmitted |-> account["details_submitted"]])

ConnectAccountStatus(r) ==
    /\ pc[r] = "idle"
    /\ \E ctype \in ContentTypes :
       \E payload \in Payloads(ctype, AccountBodies) :
         LET rq == NewReq("/connect-account-status", ctype, payload, "absent", "")
             b == rq.body.value
         IN IF AccountIdInvalid(b)
            THEN Respond(r, rq, <<>>,
                         Json(400, [error |-> "accountId is required"]), <<>>)
            ELSE IF stripe = "undefined"
            THEN Respond(r, rq, <<>>, ErrorResponse(UndefinedMsg("accounts")),
                         <<"Error checking account status:">>)
            ELSE Suspend(r, rq,
                         <<Pending("accounts.retrieve", [id |-> b["accountId"]])>>,
                         "awaitRetrieve", <<>>)

\* `await stripe.accounts.retrieve(accountId)` settles
AccountsRetrieveSettles(r) ==
    /\ pc[r] = "awaitRetrieve"
    /\ \/ \E account \in AccountFlags :
            Respond(r, req[r], Settled(calls[r], "ok", account, ""),
                    StatusResponse(account), <<>>)
       \/ \E m \in ErrMsgs :
            Respond(r, req[r], Settled(calls[r], "error", NoRet, m),
                    ErrorResponse(m), <<"Error checking account status:">>)

(* -------------------- POST /create-payment-intent --------------------- *)

\* `if (!amount || !bandStripeAccountId)`
IntentInvalid(b) ==
    ~TruthyNum(b, "amount") \/ ~TruthyStr(b, "bandStripeAccountId")

\* Math.round(amount * 0.05): the nearest integer, a half rounded up.  On
\* integers this is floor((5 * amount + 50) / 100); the double 0.05 exceeds
\* 1/20 by a relative 2^-54, less than half an ulp of any k + 0.5, so the
\* floating-point product never crosses a rounding boundary.
PlatformFee(amount) == (5 * amount + 50) \div 100

IntentArgs(b) ==
    [amount |-> b["amount"],
     currency |-> GetOr(b, "currency", "usd"),
     application_fee_amount |-> PlatformFee(b["amount"]),
     transfer_data |-> [destination |-> b["bandStripeAccountId"]],
     description |-> GetOr(b, "description", "undefined"),
     automatic_payment_methods |-> [enabled |-> TRUE],
     metadata |-> [bandStripeAccountId |-> b["bandStripeAccountId"],
                   platformFee |-> PlatformFee(b["amount"])]]

PaymentIntents == {[id |-> "pi_1", client_secret |-> "pi_1_secret"]}

IntentResponse(b, paymentIntent) ==
    Json(200, [clientSecret |-> paymentIntent["client_secret"],
               paymentIntentId |-> paymentIntent["id"],
               platformFee |-> PlatformFee(b["amount"]),
               bandAmount |-> b["amount"] - PlatformFee(b["amount"])])

CreatePaymentIntent(r) ==
    /\ pc[r] = "idle"
    /\ \E ctype \in ContentTypes :
       \E payload \in Payloads(ctype, IntentBodies) :
         LET rq == NewReq("/create-payment-intent", ctype, payload, "absent", "")
             b == rq.body.value
         IN IF IntentInvalid(b)
            THEN Respond(r, rq, <<>>,
                         Json(400, [error |-> "amount and bandStripeAccountId are required"]),
                         <<>>)
            ELSE IF stripe = "undefined"
            THEN Respond(r, rq, <<>>,
                         ErrorResponse(UndefinedMsg("paymentIntents")),
                         <<"Error creating payment intent:">>)
            ELSE Suspend(r, rq, <<Pending("paymentIntents.create", IntentArgs(b))>>,
                         "awaitIntent", <<>>)

\* `await stripe.paymentIntents.create(...)` settles
PaymentIntentsCreateSettles(r) ==
    /\ pc[r] = "awaitIntent"
    /\ \/ \E paymentIntent \in PaymentIntents :
            Respond(r, req[r], Settled(calls[r], "ok", paymentIntent, ""),
                    IntentResponse(req[r].body.value, paymentIntent), <<>>)
       \/ \E m \in ErrMsgs :
            Respond(r, req[r], Settled(calls[r], "error", NoRet, m),
                    ErrorResponse(m), <<"Error creating payment intent:">>)

(* -------------------- POST /payout-dashboard-link --------------------- *)

LoginLinkResponse(loginLink) == Json(200, [url |-> loginLink["url"]])

PayoutDashboardLink(r) ==
    /\ pc[r] = "idle"
    /\ \E ctype \in ContentTypes :
       \E payload \in Payloads(ctype, AccountBodies) :
         LET rq == NewReq("/payout-dashboard-link", ctype, payload, "absent", "")
             b == rq.body.value
         IN IF AccountIdInvalid(b)
            THEN Respond(r, rq, <<>>,
                         Json(400, [error |-> "accountId is required"]), <<>>)
            ELSE IF stripe = "undefined"
            THEN Respond(r, rq, <<>>, ErrorResponse(UndefinedMsg("accounts")),
                         <<"Error creating login link:">>)
            ELSE Suspend(r, rq,
                         <<Pending("accounts.createLoginLink",
                                   [id |-> b["accountId"]])>>,
                         "awaitLogin", <<>>)

\* `await stripe.accounts.createLoginLink(accountId)` settles
CreateLoginLinkSettles(r) ==
    /\ pc[r] = "awaitLogin"
    /\ \/ \E u \in Urls :
            Respond(r, req[r], Settled(calls[r], "ok", [url |-> u], ""),
                    LoginLinkResponse([url |-> u]), <<>>)
       \/ \E m \in ErrMsgs :
            Respond(r, req[r], Settled(calls[r], "error", NoRet, m),
                    ErrorResponse(m), <<"Error creating login link:">>)

(* --------------------------- POST /webhook ---------------------------- *)

Thrown(reason) == [ok |-> FALSE, event |-> EmptyObj, reason |-> reason]

\* stripe.webhooks.constructEvent(req.body, sig, webhookSecret).  It throws
\* a TypeError when stripe is undefined; the library rejects a missing
\* header; it then compares the header with the HMAC, under the secret, of
\* the payload taken as a string, which matches only for the raw bytes the
\* sender signed (a decoded object stringifies to "[object Object]") and
\* only under the sender's secret; otherwise it returns the decoded event
ConstructEvent(body, sig, secret) ==
    IF stripe = "undefined" THEN Thrown(UndefinedMsg("webhooks"))
    ELSE IF sig = "absent"
    THEN Thrown("No stripe-signature header value was provided.")
    ELSE IF body.form # "raw" \/ secret = "undefined" \/ sig # "valid"
    THEN Thrown("No signatures found matching the expected signature for payload.")
    ELSE [ok |-> TRUE, event |-> body.value, reason |-> ""]

\* mutant: the catch block falls through to the acknowledgement
VerifyFailedAck(reason) == [status |-> 200, body |-> [received |-> TRUE]]

\* the catch block of the verification:
\* res.status(400).send(`Webhook Error: ${err.message}`)
VerifyFailedResponse(reason) == [status |-> 400, body |-> [webhookError |-> reason]]

\* the log lines of the `switch (event.type)`
DispatchLog(event) ==
    CASE event["type"] = "payment_intent.succeeded" ->
           <<"PaymentIntent succeeded:", "Platform fee:", "Band account:">>
      [] event["type"] = "payment_intent.payment_failed" ->
           <<"PaymentIntent failed:">>
      [] event["type"] = "account.updated" ->
           <<"Account updated:", "Charges enabled:", "Payouts enabled:">>
      [] event["type"] = "transfer.created" ->
           <<"Transfer created:", "Amount:", "Destination:">>
      [] event["type"] = "payout.paid" ->
           <<"Payout completed:", "Amount:">>
      [] OTHER -> <<"Unhandled event type">>

\* every handled branch reads a property of event.data.object: a TypeError
\* when the event has no data.object
DispatchThrows(event) == event["type"] \in HandledKinds /\ ~event["hasObject"]

DispatchLines == {"PaymentIntent succeeded:", "Platform fee:", "Band account:",
                  "PaymentIntent failed:", "Account updated:",
                  "Charges enabled:", "Payouts enabled:", "Transfer created:",
                  "Amount:", "Destination:", "Payout completed:",
                  "Unhandled event type"}

Verification(v, sig, body) ==
    [op |-> "webhooks.constructEvent",
     args |-> [sig |-> sig, form |-> body.form],
     state |-> IF v.ok THEN "ok" ELSE "error", ret |-> v.event, err |-> v.reason]

\* the rejected promise of the async handler is handled by nobody: the
\* request is never answered
Unanswered(r, rq, cs) ==
    /\ pc' = [pc EXCEPT ![r] = "unanswered"]
    /\ req' = [req EXCEPT ![r] = rq]
    /\ calls' = [calls EXCEPT ![r] = cs]
    /\ UNCHANGED <<resp, log, Config>>

\* the handler has no await: verification, dispatch and acknowledgement are
\* one step
Webhook(r) ==
    /\ pc[r] = "idle"
    /\ \E ctype \in ContentTypes, sig \in Signatures :
       \E payload \in Payloads(ctype, EventBodies) :
         LET rq == NewReq("/webhook", ctype, payload, sig, "")
             v == ConstructEvent(rq.body, sig, webhookSecret)
             cs == <<Verification(v, sig, rq.body)>>
         IN IF ~v.ok
            THEN Respond(r, rq, cs, VerifyFailedResponse(v.reason),
                         <<"Webhook signature verification failed:">>)
            ELSE IF DispatchThrows(v.event)
            THEN Unanswered(r, rq, cs)
            ELSE Respond(r, rq, cs, Json(200, [received |-> TRUE]),
                         DispatchLog(v.event))

(* ------------------------------- Next --------------------------------- *)

Next ==
    \E r \in Reqs :
        \/ Health(r)
        \/ CreateConnectAccount(r)
        \/ AccountsCreateSettles(r)
        \/ AccountLinksCreateSettles(r)
        \/ ConnectAccountStatus(r)
        \/ AccountsRetrieveSettles(r)
        \/ CreatePaymentIntent(r)
        \/ PaymentIntentsCreateSettles(r)
        \/ PayoutDashboardLink(r)
        \/ CreateLoginLinkSettles(r)
        \/ Webhook(r)

Spec == Init /\ [][Next]_vars

(* ============================== claims ================================ *)

Business == {"/create-connect-account", "/connect-account-status",
             "/create-payment-intent", "/payout-dashboard-link"}

SingleCall == Business \ {"/create-connect-account"}

\* the fields the spec requires of each business endpoint
RequiredFields(route) ==
    CASE route = "/create-connect-account" -> {"bandId", "email"}
      [] route = "/connect-account-status" -> {"accountId"}
      [] route = "/create-payment-intent" -> {"amount", "bandStripeAccountId"}
      [] route = "/payout-dashboard-link" -> {"accountId"}

\* the request in slot r has arrived
Arrived(r) == pc[r] # "idle"

Lacks(r) == \E k \in RequiredFields(req[r].route) : ~Has(req[r].body.value, k)

SomeCall(r, state) == \E i \in 1..Len(calls[r]) : calls[r][i].state = state

\* C1: a payment-intent request with an integer amount >= 0 (0 included) and
\* a bandStripeAccountId, none of whose external calls fails, is answered
\* with platformFee = round(amount * 0.05), a half rounded up, and
\* bandAmount = amount - platformFee, and the application_fee_amount sent to
\* the platform is the platformFee returned.
C1_FeeSplit ==
    \A r \in Reqs :
        LET b == req[r].body.value IN
        (/\ req[r].route = "/create-payment-intent"
         /\ pc[r] = "done"
         /\ stripe = "client"
         /\ Has(b, "amount") /\ b["amount"] >= 0
         /\ Has(b, "bandStripeAccountId")
         /\ ~SomeCall(r, "error"))
        => /\ resp[r].status = 200
           /\ 20 * resp[r].body["platformFee"] - 10 <= b["amount"]
           /\ b["amount"] < 20 * resp[r].body["platformFee"] + 10
           /\ resp[r].body["bandAmount"] = b["amount"] - resp[r].body["platformFee"]
           /\ Len(calls[r]) = 1
           /\ calls[r][1].args.application_fee_amount = resp[r].body["platformFee"]

\* C2: a request to a business endpoint that lacks a required field is
\* answered 400 and no external call is issued for it, whether or not the
\* payment client was initialized.
C2_MissingFieldIs400 ==
    \A r \in Reqs :
        (Arrived(r) /\ req[r].route \in Business /\ Lacks(r))
        => /\ pc[r] = "done"
           /\ resp[r].status = 400
           /\ calls[r] = <<>>

C2_Witness ==
    \E r \in Reqs :
        /\ stripe = "undefined"
        /\ req[r].route = "/create-payment-intent"
        /\ Has(req[r].body.value, "amount")
        /\ ~Has(req[r].body.value, "bandStripeAccountId")
        /\ resp[r].status = 400

VerificationFailed(r) ==
    /\ req[r].route = "/webhook"
    /\ Arrived(r)
    /\ calls[r][1].state = "error"

\* C3: a webhook request whose signature verification fails is answered 400
\* with a body carrying the reason of the failure, is not acknowledged, and
\* no line of the event dispatch is logged for it.
C3_VerifyFailIs400 ==
    \A r \in Reqs :
        VerificationFailed(r)
        => /\ pc[r] = "done"
           /\ resp[r].status = 400
           /\ resp[r].body = [webhookError |-> calls[r][1].err]
           /\ calls[r][1].err # ""
           /\ \A i \in 1..Len(log[r]) : log[r][i] \notin DispatchLines

C3_Witness ==
    \E r \in Reqs :
        /\ VerificationFailed(r)
        /\ stripe = "client" /\ webhookSecret = "whsec"
        /\ req[r].sig = "forged"
        /\ resp[r].status = 400

\* C4: a webhook request that carries a valid signature of its body under the
\* configured secret, so that its verification succeeds, is answered
\* 200 {received: true}, whatever the kind and the payload of its event.
C4_VerifiedIsAcknowledged ==
    \A r \in Reqs :
        (/\ req[r].route = "/webhook"
         /\ Arrived(r)
         /\ stripe = "client" /\ webhookSecret = "whsec"
         /\ req[r].ctype = "application/json"
         /\ req[r].sig = "valid")
        => /\ pc[r] = "done"
           /\ resp[r] = Json(200, [received |-> TRUE])

\* C5: the body of a webhook request of JSON content type that is handed to
\* the signature verification is the raw bytes of the request, not a decoded
\* object.
C5_WebhookBodyIsRaw ==
    \A r \in Reqs :
        (/\ req[r].route = "/webhook"
         /\ Arrived(r)
         /\ req[r].ctype = "application/json")
        => /\ req[r].body.form = "raw"
           /\ calls[r][1].args.form = "raw"

\* C6: when an external call of a validated business request fails, the
\* request is answered 500 {error: <message of the failure>}, the failed call
\* is the last one of the request, and no operation is invoked twice.
C6_ExternalFailureIs500 ==
    \A r \in Reqs :
        req[r].route \in Business =>
          /\ \A i \in 1..Len(calls[r]) :
                calls[r][i].state = "error"
                => /\ pc[r] = "done"
                   /\ resp[r] = Json(500, [error |-> calls[r][i].err])
                   /\ i = Len(calls[r])
          /\ \A i, j \in 1..Len(calls[r]) :
                calls[r][i].op = calls[r][j].op => i = j

C6_Witness ==
    \E r \in Reqs :
        /\ req[r].route = "/payout-dashboard-link"
        /\ SomeCall(r, "error")
        /\ resp[r].status = 500

PartialFailure(r) == resp[r].status = 500 /\ SomeCall(r, "ok")

\* C7 as stated: every request to a business endpoint issues at most one
\* external call, and none ends in a 500 after one of its calls succeeded.
C7_SingleAtomicCall ==
    \A r \in Reqs :
        req[r].route \in Business
        => Len(calls[r]) <= 1 /\ ~PartialFailure(r)

\* C7 amended: connect-account-status, create-payment-intent and
\* payout-dashboard-link issue at most one external call and never end in a
\* 500 after a call succeeded; create-connect-account issues at most two,
\* and ends in a 500 after a success only when the account was created and
\* the link creation failed.
C7_SingleCallButConnect ==
    \A r \in Reqs :
        /\ req[r].route \in SingleCall
           => Len(calls[r]) <= 1 /\ ~PartialFailure(r)
        /\ req[r].route = "/create-connect-account"
           => /\ Len(calls[r]) <= 2
              /\ PartialFailure(r)
                 => /\ Len(calls[r]) = 2
                    /\ calls[r][1].op = "accounts.create"
                    /\ calls[r][1].state = "ok"
                    /\ calls[r][2].op = "accountLinks.create"
                    /\ calls[r][2].state = "error"

C7_Witness ==
    \E r, q \in Reqs :
        /\ req[r].route = "/create-connect-account" /\ PartialFailure(r)
        /\ req[q].route = "/connect-account-status"
        /\ pc[q] = "done" /\ resp[q].status = 200 /\ Len(calls[q]) = 1

AllRequired(r) == \A k \in RequiredFields(req[r].route) : Has(req[r].body.value, k)

\* C8: with the secret key missing the health check is answered 200 with
\* status "CrowdFuel Backend Running", and every business request that
\* carries all its required fields is answered 500 without an external call.
C8_DegradedService ==
    stripe = "undefined" =>
        \A r \in Reqs :
            /\ (Arrived(r) /\ req[r].route = "/")
               => /\ resp[r].status = 200
                  /\ resp[r].body["status"] = "CrowdFuel Backend Running"
            /\ (Arrived(r) /\ req[r].route \in Business /\ AllRequired(r))
               => /\ pc[r] = "done"
                  /\ resp[r].status = 500
                  /\ calls[r] = <<>>

\* a step changes the slot of one request only
OneSlot ==
    \A r, q \in Reqs :
        (r # q /\ <<pc[r], req[r], calls[r], resp[r], log[r]>>
                    # <<pc'[r], req'[r], calls'[r], resp'[r], log'[r]>>)
        => <<pc[q], req[q], calls[q], resp[q], log[q]>>
             = <<pc'[q], req'[q], calls'[q], resp'[q], log'[q]>>

\* two answered requests with the same route, headers and body and the same
\* results of their external calls have the same response
SameInSameOut ==
    \A r, q \in Reqs :
        (pc[r] = "done" /\ pc[q] = "done" /\ req[r] = req[q] /\ calls[r] = calls[q])
        => resp[r] = resp[q]

\* C9: no step of a handler changes the payment client handle or the
\* configuration, nor the state of another request, and the response to a
\* request is a function of its own headers and body and of the results of
\* its own external calls.
C9_NoSharedState ==
    /\ []SameInSameOut
    /\ [][Config' = Config /\ OneSlot]_vars

C9_Witness ==
    \E r, q \in Reqs :
        /\ r # q
        /\ req[r].route = "/create-connect-account" /\ req[r] = req[q]
        /\ pc[r] = "done" /\ pc[q] = "done"
        /\ calls[r] = calls[q] /\ SomeCall(r, "error")

ConnectCalls(r) ==
    LET cs == calls[r]
        b == req[r].body.value
    IN /\ Len(cs) >= 1
          => /\ cs[1].op = "accounts.create"
             /\ cs[1].args.country = (IF Has(b, "country") THEN b["country"] ELSE "US")
             /\ cs[1].args.email = b["email"]
       /\ (Len(cs) >= 1 /\ cs[1].state = "error") => Len(cs) = 1
       /\ \A i \in 1..Len(cs) :
             cs[i].op = "accountLinks.create"
             => /\ i = 2
                /\ cs[1].state = "ok"
                /\ cs[2].args.account = cs[1].ret["id"]
                /\ cs[2].args.return_url.accountId = cs[1].ret["id"]
                /\ cs[2].args.return_url.bandId = b["bandId"]
       /\ (pc[r] = "done" /\ Len(cs) = 2 /\ cs[2].state = "ok")
          => resp[r] = Json(200, [accountId |-> cs[1].ret["id"],
                                  onboardingUrl |-> cs[2].ret["url"]])

\* C10: in create-connect-account the link call is issued only after the
\* account creation succeeded, for the account id it returned and with a
\* return URL embedding that id and the caller's bandId; no link call follows
\* a failed creation; when both succeed the response is exactly
\* {accountId, onboardingUrl} of the two results; country defaults to "US".
C10_ConnectOrdering ==
    \A r \in Reqs : req[r].route = "/create-connect-account" => ConnectCalls(r)

C10_Witness ==
    \E r \in Reqs :
        /\ req[r].route = "/create-connect-account"
        /\ ~Has(req[r].body.value, "country")
        /\ pc[r] = "done" /\ resp[r].status = 200
        /\ resp[r].body["accountId"] = "acct_2"

====
